---- MODULE Spec2Model ----
(***************************************************************************)
(* Tic-tac-toe social arena: the game state store (GameContext.tsx), its   *)
(* offline simulation, the landing page (Index) and the candidate-list     *)
(* connection manager (SocketService with SERVER_OPTIONS).                 *)
(*                                                                         *)
(* React closures are modelled as the code captures them: a handler called *)
(* from the UI sees the store of the latest render, a callback deferred by *)
(* setTimeout sees the values its enclosing handler was called with.       *)
(***************************************************************************)
EXTENDS Integers, Sequences, FiniteSets, TLC

\* ---------------------------------------------------------------- bounds
MaxRooms == 3        \* rooms in the room list (the two demo rooms included)
MaxClock == 1        \* rooms created by the simulation since the page loaded
MaxMsgs == 3         \* messages in the message log
MaxBot == 1          \* pending automatic opponent timers
MaxChat == 1         \* pending canned reply timers
MaxReconnect == 1    \* pending reconnection timers
MaxOrphans == 1      \* pending connection timeouts of replaced sockets
MaxCalls == 2        \* connectToServer calls since the page loaded
MaxAcks == 1         \* acknowledgements awaited from the server
MaxFallbackErrors == 2   \* connect_error events of one fallback socket
MaxCell == 5         \* the highest cell a user clicks while rooms and timers are explored

\* ------------------------------------------------------- program constants
ServerCount == 3            \* SERVER_OPTIONS.length
maxReconnectAttempts == 3
reconnectionAttempts == 2   \* socket.io option: automatic retries of one socket
mainReconnectionAttempts == 5   \* the same option of the two-endpoint manager's main socket

\* ---------------------------------------------------------------- values
Null == "null"
Names == {"alice", "bob"}
LoginNames == {"alice"}
Texts == {"hi"}
RoomNames == {"Test"}
Cells == 0..8
Marks == {"X", "O"}
ServerRoomIds == {"srv-1"}

\* GameState | null and Socket | null: null is a record of its own so that it
\* compares with records
NullState == [none |-> TRUE]
NullSock == [none |-> TRUE]

EmptyBoard == [c \in Cells |-> Null]

initialGameState ==
  [board |-> EmptyBoard, currentTurn |-> "X", gameOver |-> FALSE,
   winner |-> Null, winningCombination |-> <<>>,
   players |-> [X |-> Null, O |-> Null]]

demoRooms ==
  << [id |-> "demo-room-1", name |-> "Public Game Room",
      players |-> <<"Player1">>, spectators |-> 0, isPrivate |-> FALSE],
     [id |-> "demo-room-2", name |-> "Quick Match",
      players |-> <<"Player2", "Player3">>, spectators |-> 1, isPrivate |-> FALSE] >>

botResponses ==
  << "I see what you mean.", "Interesting move!", "Let me think about that.",
     "Good game so far!", "I'm enjoying this match.",
     "Your strategy is interesting.", "Let's have a good game!" >>

\* ---------------------------------------------------------------- state
VARIABLES
  username,        \* GameProvider: useState username
  gameState,       \* GameProvider: useState gameState
  rooms,           \* GameProvider: useState rooms
  messages,        \* GameProvider: useState messages
  currentRoom,     \* GameProvider: useState currentRoom
  isOfflineMode,   \* GameProvider: useState isOfflineMode
  subscribed,      \* GameProvider: the last run of the subscription effect returned handles
  connecting,      \* Index: useState connecting
  connectionFailed,\* Index: useState connectionFailed
  stored,          \* localStorage["tictactoe_username"]
  timers,          \* pending setTimeout callbacks, in scheduling order
  clock,           \* Date.now(), counted in rooms created so far
  socket,          \* SocketService.socket
  svcUsername,     \* SocketService.username
  mainSocket,      \* the socket that connect() of the two-endpoint manager opened
  reconnectAttempts,   \* SocketService.reconnectAttempts
  currentServerIndex,  \* SocketService.currentServerIndex
  calls,           \* the promises returned by socketService.connect to connectToServer
  acks,            \* acknowledgement callbacks waiting on the current socket
  last             \* the last operation applied, its arguments and outcome

storeVars == <<username, gameState, rooms, messages, currentRoom, isOfflineMode, subscribed>>
pageVars == <<connecting, connectionFailed>>
svcVars == <<socket, svcUsername, mainSocket, reconnectAttempts, currentServerIndex, calls, acks>>
vars == <<username, gameState, rooms, messages, currentRoom, isOfflineMode, subscribed,
          connecting, connectionFailed, stored, timers, clock,
          socket, svcUsername, mainSocket, reconnectAttempts, currentServerIndex, calls, acks, last>>

Op(op, id, res) == [op |-> op, id |-> id, res |-> res]

\* ---------------------------------------------------------------- helpers
Truthy(x) == x # Null

OrYou(u) == IF u = Null THEN "You" ELSE u

lines ==
  << <<0, 1, 2>>, <<3, 4, 5>>, <<6, 7, 8>>, <<0, 3, 6>>,
     <<1, 4, 7>>, <<2, 5, 8>>, <<0, 4, 8>>, <<2, 4, 6>> >>

LineMatches(board, line) ==
  /\ Truthy(board[line[1]])
  /\ board[line[1]] = board[line[2]]
  /\ board[line[1]] = board[line[3]]

checkWinner_m(board) ==
  IF \E k \in 1..Len(lines) : LineMatches(board, lines[k])
  THEN lines[CHOOSE k \in 1..Len(lines) :
               /\ LineMatches(board, lines[k])
               /\ \A j \in (k + 1)..Len(lines) : ~LineMatches(board, lines[j])]
  ELSE <<>>

\* the first line, in the order of `lines', whose three cells hold the same
\* mark; <<>> is null
checkWinner(board) ==
  IF \E k \in 1..Len(lines) : LineMatches(board, lines[k])
  THEN lines[CHOOSE k \in 1..Len(lines) :
               /\ LineMatches(board, lines[k])
               /\ \A j \in 1..(k - 1) : ~LineMatches(board, lines[j])]
  ELSE <<>>

isDrawOf_m(winner, newBoard) == winner = <<>> /\ \A c \in Cells \ {8} : newBoard[c] # Null

isDrawOf_f(winner, newBoard) == FALSE

isDrawOf(winner, newBoard) == winner = <<>> /\ \A c \in Cells : newBoard[c] # Null

Other(mark) == IF mark = "X" THEN "O" ELSE "X"

emptyCells(board) == {c \in Cells : board[c] = Null}

\* rooms.find(r => r.id === id): index of the first room with that id, 0 if none
FindRoom(rs, id) ==
  IF \E k \in 1..Len(rs) : rs[k].id = id
  THEN CHOOSE k \in 1..Len(rs) : rs[k].id = id /\ \A j \in 1..(k - 1) : rs[j].id # id
  ELSE 0

Available_m(r) == Len(r.players) < 2

\* rooms.find(r => !r.isPrivate && r.players.length < 2)
Available(r) == ~r.isPrivate /\ Len(r.players) < 2
FindAvailable(rs) ==
  IF \E k \in 1..Len(rs) : Available(rs[k])
  THEN CHOOSE k \in 1..Len(rs) : Available(rs[k]) /\ \A j \in 1..(k - 1) : ~Available(rs[j])
  ELSE 0

RoomId(n) == "room-" \o ToString(n)

\* a timer may fire before an earlier scheduled one only if its shortest
\* delay is below the longest delay of the earlier one
MinDelay(t) == CASE t.kind = "bot" -> 1000 [] t.kind = "chat" -> 1000
                 [] t.kind = "reconnect" -> 2000 [] OTHER -> 6000
MaxDelay(t) == CASE t.kind = "bot" -> 1000 [] t.kind = "chat" -> 2000
                 [] t.kind = "reconnect" -> 2000 [] OTHER -> 6000
CanFire(k) == \A j \in 1..(k - 1) : MinDelay(timers[k]) < MaxDelay(timers[j])

RemoveAt(s, k) == [j \in 1..(Len(s) - 1) |-> IF j < k THEN s[j] ELSE s[j + 1]]

Timer(kind, gs, nb, user, call, cur) ==
  [kind |-> kind, gs |-> gs, nb |-> nb, user |-> user, call |-> call, cur |-> cur]
\* call of a reconnection timer: the endpoint of the connection that dropped
BotTimer(gs, nb) == Timer("bot", gs, nb, Null, 0, FALSE)
\* the reply callback reads nothing of the captured gameState but its players
Captured(gs) == IF gs = NullState THEN NullState ELSE [players |-> gs.players]
ChatTimer(gs, u) == Timer("chat", Captured(gs), EmptyBoard, u, 0, FALSE)
ReconnectTimer(server) == Timer("reconnect", NullState, EmptyBoard, Null, server, FALSE)
ConnectTimeout(call) == Timer("connectTimeout", NullState, EmptyBoard, Null, call, TRUE)

CountKind(tms, kind) == Cardinality({k \in 1..Len(tms) : tms[k].kind = kind})
CountOrphans(tms) ==
  Cardinality({k \in 1..Len(tms) : tms[k].kind = "connectTimeout" /\ ~tms[k].cur})

\* ------------------------------------------------- makeMove, offline branch
\* All of these take the gameState of the closure makeMove was created in.
MoveAccepted_m(gs, index) ==
  /\ gs # NullState
  /\ ~Truthy(gs.board[index])

MoveAccepted(gs, index) ==
  /\ gs # NullState
  /\ ~Truthy(gs.board[index])
  /\ ~gs.gameOver

NewBoard_m(gs, index) == [gs.board EXCEPT ![index] = Other(gs.currentTurn)]

NewBoard(gs, index) == [gs.board EXCEPT ![index] = gs.currentTurn]

MovedState_m(gs, index) ==
  LET newBoard == NewBoard(gs, index)
      winner == checkWinner(newBoard)
      isDraw == isDrawOf(winner, newBoard)
  IN [gs EXCEPT !.board = newBoard,
                !.currentTurn = Other(gs.currentTurn),
                !.gameOver = (winner # <<>>) \/ isDraw,
                !.winner = IF winner # <<>> THEN gs.players[Other(gs.currentTurn)] ELSE Null,
                !.winningCombination = winner]

MovedState(gs, index) ==
  LET newBoard == NewBoard(gs, index)
      winner == checkWinner(newBoard)
      isDraw == isDrawOf(winner, newBoard)
  IN [gs EXCEPT !.board = newBoard,
                !.currentTurn = Other(gs.currentTurn),
                !.gameOver = (winner # <<>>) \/ isDraw,
                !.winner = IF winner # <<>> THEN gs.players[gs.currentTurn] ELSE Null,
                !.winningCombination = winner]

SchedulesBot(gs, index) ==
  LET newBoard == NewBoard(gs, index)
      winner == checkWinner(newBoard)
  IN /\ winner = <<>>
     /\ ~isDrawOf(winner, newBoard)
     /\ gs.currentTurn = "X"
     /\ ~Truthy(gs.players.O)

\* the effect of makeMove(index) of a closure over gs with isOfflineMode true,
\* on gameState and on the timers left after removing the firing one
OfflineMove(gs, index, rest) ==
  IF MoveAccepted(gs, index)
  THEN /\ gameState' = MovedState(gs, index)
       /\ timers' = IF SchedulesBot(gs, index)
                    THEN Append(rest, BotTimer(gs, NewBoard(gs, index)))
                    ELSE rest
  ELSE /\ gameState' = gameState
       /\ timers' = rest


\* a pending acknowledgement callback of an emit on the current socket
Ack(kind, id) == [kind |-> kind, id |-> id]

\* socketService.<action>: socket.emit unless there is no socket
Emits == socket # NullSock

\* ------------------------------------------------------------ store: rooms
newRoom_m(newRoomId, name, isPrivate) ==
  [id |-> newRoomId, name |-> name, players |-> <<>>,
   spectators |-> 0, isPrivate |-> isPrivate]

newRoom(newRoomId, name, isPrivate) ==
  [id |-> newRoomId, name |-> name, players |-> <<OrYou(username)>>,
   spectators |-> 0, isPrivate |-> isPrivate]

OfflineCreateRoom(name, isPrivate) ==
  LET newRoomId == RoomId(clock)
  IN /\ Len(rooms) < MaxRooms
     /\ clock < MaxClock
     /\ rooms' = Append(rooms, newRoom(newRoomId, name, isPrivate))
     /\ currentRoom' = newRoomId
     /\ gameState' = [initialGameState EXCEPT !.players = [X |-> username, O |-> Null]]
     /\ clock' = clock + 1
     /\ UNCHANGED <<username, messages, isOfflineMode, subscribed, pageVars, stored,
                    timers, svcVars>>

JoinError_m(id) ==
  LET k == FindRoom(rooms, id)
  IN IF k = 0 THEN "Room not found"
     ELSE IF Len(rooms[k].players) > 2 THEN "Room is full"
     ELSE "ok"

JoinError_n(id) ==
  LET k == FindRoom(rooms, id)
  IN IF k = 0 THEN "Room not found" ELSE "ok"

JoinError(id) ==
  LET k == FindRoom(rooms, id)
  IN IF k = 0 THEN "Room not found"
     ELSE IF Len(rooms[k].players) >= 2 THEN "Room is full"
     ELSE "ok"

OfflineJoinRoom_m(id) ==
  LET k == FindRoom(rooms, id)
  IN IF JoinError(id) # "ok"
     THEN UNCHANGED <<storeVars, pageVars, stored, timers, clock, svcVars>>
     ELSE /\ rooms' = [j \in 1..Len(rooms) |->
                        IF rooms[j].id = id
                        THEN [rooms[j] EXCEPT !.players = Append(@, OrYou(username))]
                        ELSE rooms[j]]
          /\ currentRoom' = id
          /\ gameState' = [initialGameState EXCEPT
                             !.players = [X |-> username, O |-> rooms[k].players[1]]]
          /\ messages' = << [sender |-> "System", text |-> "Welcome to the game room!"] >>
          /\ UNCHANGED <<username, isOfflineMode, subscribed, pageVars, stored, timers,
                         clock, svcVars>>

OfflineJoinRoom(id) ==
  LET k == FindRoom(rooms, id)
  IN IF JoinError(id) # "ok"
     THEN UNCHANGED <<storeVars, pageVars, stored, timers, clock, svcVars>>
     ELSE /\ rooms' = [j \in 1..Len(rooms) |->
                        IF rooms[j].id = id
                        THEN [rooms[j] EXCEPT !.players = Append(@, OrYou(username))]
                        ELSE rooms[j]]
          /\ currentRoom' = id
          /\ gameState' = [initialGameState EXCEPT
                             !.players = [X |-> rooms[k].players[1], O |-> username]]
          /\ messages' = << [sender |-> "System", text |-> "Welcome to the game room!"] >>
          /\ UNCHANGED <<username, isOfflineMode, subscribed, pageVars, stored, timers,
                         clock, svcVars>>

\* an emit with an acknowledgement callback, or the rejected promise when there
\* is no socket
OnlineRequest(kind, id) ==
  /\ IF Emits
     THEN /\ Len(acks) < MaxAcks
          /\ acks' = Append(acks, Ack(kind, id))
     ELSE acks' = acks
  /\ UNCHANGED <<storeVars, pageVars, stored, timers, clock,
                 socket, svcUsername, mainSocket, reconnectAttempts, currentServerIndex, calls>>

createRoom(name, isPrivate) ==
  /\ IF isOfflineMode
     THEN OfflineCreateRoom(name, isPrivate)
     ELSE OnlineRequest("create_room", Null)
  /\ last' = Op("createRoom", IF isOfflineMode THEN RoomId(clock) ELSE Null,
                IF isOfflineMode THEN "ok" ELSE IF Emits THEN "emit" ELSE "Not connected")

joinRoom(id) ==
  /\ IF isOfflineMode
     THEN OfflineJoinRoom(id)
     ELSE OnlineRequest("join_room", id)
  /\ last' = Op("joinRoom", id,
                IF isOfflineMode THEN JoinError(id)
                ELSE IF Emits THEN "emit" ELSE "Not connected")

joinRandomGame ==
  LET k == FindAvailable(rooms)
  IN /\ IF isOfflineMode
        THEN IF k # 0 THEN OfflineJoinRoom(rooms[k].id)
             ELSE OfflineCreateRoom("Quick Game", FALSE)
        ELSE OnlineRequest("join_random", Null)
     /\ last' = Op("joinRandomGame",
                   IF ~isOfflineMode THEN Null
                   ELSE IF k # 0 THEN rooms[k].id ELSE RoomId(clock),
                   IF isOfflineMode THEN (IF k # 0 THEN "joined" ELSE "created")
                   ELSE IF Emits THEN "emit" ELSE "Not connected")

leaveRoom ==
  /\ currentRoom' = Null
  /\ gameState' = NullState
  /\ messages' = <<>>
  /\ UNCHANGED <<username, rooms, isOfflineMode, subscribed, pageVars, stored, timers,
                 clock, svcVars>>
  /\ last' = Op("leaveRoom", Null,
                IF isOfflineMode THEN "ok" ELSE IF Emits THEN "emit" ELSE "noop")

\* ------------------------------------------------------- store: game, chat
\* what makeMove(index) is called on: no game, a finished game, an occupied
\* cell or a free cell
CellIs(gs, index) ==
  IF gs = NullState THEN "no game"
  ELSE IF gs.gameOver THEN "over"
  ELSE IF gs.board[index] # Null THEN "occupied"
  ELSE "free"

makeMove(index) ==
  /\ IF isOfflineMode
     THEN /\ (MoveAccepted(gameState, index) /\ SchedulesBot(gameState, index))
               => CountKind(timers, "bot") < MaxBot
          /\ OfflineMove(gameState, index, timers)
     ELSE UNCHANGED <<gameState, timers>>
  /\ UNCHANGED <<username, rooms, messages, currentRoom, isOfflineMode, subscribed,
                 pageVars, stored, clock, svcVars>>
  /\ last' = Op("makeMove", Null, CellIs(gameState, index))

\* the automatic opponent: the callback deferred by makeMove, which calls the
\* makeMove of the render it was created in
BotFire(k) ==
  LET t == timers[k]
      rest == RemoveAt(timers, k)
  IN /\ t.kind = "bot"
     /\ CanFire(k)
     /\ IF emptyCells(t.nb) = {}
        THEN /\ UNCHANGED gameState
             /\ timers' = rest
        ELSE \E randomIndex \in emptyCells(t.nb) : OfflineMove(t.gs, randomIndex, rest)
     /\ last' = Op("botTimer", Null, "fired")
     /\ UNCHANGED <<username, rooms, messages, currentRoom, isOfflineMode, subscribed,
                    pageVars, stored, clock, svcVars>>

PendingAppends == CountKind(timers, "chat")

sendMessage(message) ==
  /\ IF isOfflineMode
     THEN /\ Len(messages) + PendingAppends + 2 <= MaxMsgs
          /\ CountKind(timers, "chat") < MaxChat
          /\ messages' = Append(messages, [sender |-> OrYou(username), text |-> message])
          /\ timers' = Append(timers, ChatTimer(gameState, username))
     ELSE UNCHANGED <<messages, timers>>
  /\ UNCHANGED <<username, gameState, rooms, currentRoom, isOfflineMode, subscribed,
                 pageVars, stored, clock, svcVars>>
  /\ last' = Op("sendMessage", Null,
                IF isOfflineMode THEN "ok"
                ELSE IF Emits /\ svcUsername # Null THEN "emit" ELSE "noop")

\* sender of the canned reply, from the gameState and username sendMessage saw
ReplySender(gs, user) ==
  IF gs # NullState /\ gs.players.X = user
  THEN (IF Truthy(gs.players.O) THEN gs.players.O ELSE "Opponent")
  ELSE IF gs # NullState /\ Truthy(gs.players.X) THEN gs.players.X ELSE "Opponent"

ChatFire(k) ==
  LET t == timers[k]
  IN /\ t.kind = "chat"
     /\ CanFire(k)
     /\ \E r \in 1..Len(botResponses) :
          messages' = Append(messages, [sender |-> ReplySender(t.gs, t.user),
                                        text |-> botResponses[r]])
     /\ timers' = RemoveAt(timers, k)
     /\ UNCHANGED <<username, gameState, rooms, currentRoom, isOfflineMode, subscribed,
                    pageVars, stored, clock, svcVars>>
     /\ last' = Op("chatTimer", Null, "ok")

restartGame_m ==
  /\ IF isOfflineMode
     THEN /\ Len(messages) + PendingAppends + 1 <= MaxMsgs
          /\ gameState' = [initialGameState EXCEPT
                             !.players = IF gameState # NullState THEN gameState.players
                                         ELSE [X |-> username, O |-> Null]]
          /\ messages' = Append(<<>>, [sender |-> "System",
                                           text |-> "Game has been restarted."])
     ELSE UNCHANGED <<gameState, messages>>
  /\ UNCHANGED <<username, rooms, currentRoom, isOfflineMode, subscribed,
                 pageVars, stored, timers, clock, svcVars>>
  /\ last' = Op("restartGame", Null,
                IF isOfflineMode THEN "ok" ELSE IF Emits THEN "emit" ELSE "noop")

restartGame ==
  /\ IF isOfflineMode
     THEN /\ Len(messages) + PendingAppends + 1 <= MaxMsgs
          /\ gameState' = [initialGameState EXCEPT
                             !.players = IF gameState # NullState THEN gameState.players
                                         ELSE [X |-> username, O |-> Null]]
          /\ messages' = Append(messages, [sender |-> "System",
                                           text |-> "Game has been restarted."])
     ELSE UNCHANGED <<gameState, messages>>
  /\ UNCHANGED <<username, rooms, currentRoom, isOfflineMode, subscribed,
                 pageVars, stored, timers, clock, svcVars>>
  /\ last' = Op("restartGame", Null,
                IF isOfflineMode THEN "ok" ELSE IF Emits THEN "emit" ELSE "noop")


\* ------------------------------------------------------ connection manager
\* A socket of socket.io-client as the manager uses it.  status is
\* "connecting" (also while the library retries by itself), "connected" or
\* "closed"; errorsLeft counts the connect_error events the library can still
\* emit before it gives up; call is the promise the handlers registered by
\* tryConnect resolve (0: a promise nobody holds); listeners tells whether the
\* provider's five listeners are registered on it.
NewSocket(serverIndex, call) ==
  [server |-> serverIndex, status |-> "connecting", call |-> call,
   errorsLeft |-> reconnectionAttempts + 1, listeners |-> FALSE]

IsConnected(sock) == sock # NullSock /\ sock.status = "connected"

\* the connection timeouts of sockets that have been replaced stay pending
Orphan(tms) ==
  [k \in 1..Len(tms) |->
     IF tms[k].kind = "connectTimeout" THEN [tms[k] EXCEPT !.cur = FALSE] ELSE tms[k]]

\* clearTimeout(connectTimeout) in the handlers of the current socket
IsCurTimeout(t) == t.kind = "connectTimeout" /\ t.cur
ClearTimeout(tms) == SelectSeq(tms, LAMBDA t : ~IsCurTimeout(t))

\* onGameState, onRoomList, onMessage, onPlayerJoined and onPlayerLeft, which
\* the provider calls together: without a socket nothing is registered and
\* nothing is returned, otherwise the callbacks are registered on the current
\* socket and handles are returned
Subscribe(sock) ==
  [handles |-> sock # NullSock,
   sock |-> IF sock # NullSock THEN [sock EXCEPT !.listeners = TRUE] ELSE sock]

\* the handles: this.socket?.off(event, callback) on the socket current now
Unsubscribe(sock) ==
  IF sock # NullSock THEN [sock EXCEPT !.listeners = FALSE] ELSE sock

NewCall(name) ==
  [name |-> name, state |-> "pending", tried |-> -1, failed |-> {}, ordered |-> TRUE]

\* tried, failed and ordered are the history of a call while it is pending:
\* the candidate attempted last for it (-1: none yet), the candidates whose
\* attempt has failed, and whether every attempt so far has targeted the
\* candidate that follows the previous one in SERVER_OPTIONS, the first
\* attempt candidate 0
Pending(cs, call) == call # 0 /\ cs[call].state = "pending"

\* the history is kept for the latest call only
Forget(cs) ==
  [k \in 1..Len(cs) |-> [cs[k] EXCEPT !.tried = -1, !.failed = {}, !.ordered = TRUE]]

InOrder(c, serverIndex) ==
  serverIndex = (IF c.tried = -1 THEN 0 ELSE (c.tried + 1) % ServerCount)

Tried(cs, call, serverIndex) ==
  IF Pending(cs, call)
  THEN [cs EXCEPT ![call].tried = serverIndex,
                  ![call].ordered = @ /\ InOrder(cs[call], serverIndex)]
  ELSE cs

Failed(cs, sock) ==
  IF sock # NullSock /\ Pending(cs, sock.call)
  THEN [cs EXCEPT ![sock.call].failed = @ \cup {sock.server}]
  ELSE cs

\* The state of the manager after a step, with the promise the step resolved:
\* res is "none", "true" or "false".
Step(sock, tms, idx, ra, aks, cs, call, res) ==
  [sock |-> sock, tms |-> tms, idx |-> idx, ra |-> ra, acks |-> aks, calls |-> cs,
   call |-> call, res |-> res]

\* tryConnect(serverIndex) with the resolve function of `call': the existing
\* socket is disconnected and stripped of its listeners, a new one is opened
tryConnect(serverIndex, call, tms, ra, cs) ==
  Step(NewSocket(serverIndex, call),
       Append(Orphan(tms), ConnectTimeout(call)),
       serverIndex, ra, <<>>, Tried(cs, call, serverIndex), call, "none")

tryNextServer_m(call, sock, tms, cs) ==
  LET attempts == reconnectAttempts + 1
      nextServerIndex == (currentServerIndex + 1) % ServerCount
  IN IF attempts >= maxReconnectAttempts * ServerCount
     THEN Step(sock, tms, currentServerIndex, attempts, acks, cs, call, "rejected")
     ELSE tryConnect(nextServerIndex, call, tms, attempts, cs)

\* tryNextServer(resolve) with the resolve function of `call'
tryNextServer(call, sock, tms, cs) ==
  LET attempts == reconnectAttempts + 1
      nextServerIndex == (currentServerIndex + 1) % ServerCount
  IN IF attempts >= maxReconnectAttempts * ServerCount
     THEN Step(sock, tms, currentServerIndex, attempts, acks, cs, call, "false")
     ELSE tryConnect(nextServerIndex, call, tms, attempts, cs)

connect_m(name, call, cs) ==
  IF socket # NullSock
  THEN Step(socket, timers, currentServerIndex, reconnectAttempts, acks, cs, call, "true")
  ELSE tryConnect(0, call, timers, reconnectAttempts, cs)

\* connect(username)
connect(name, call, cs) ==
  IF IsConnected(socket)
  THEN Step(socket, timers, currentServerIndex, reconnectAttempts, acks, cs, call, "true")
  ELSE tryConnect(0, call, timers, reconnectAttempts, cs)

\* ---------------------------------------------------------- connectToServer
\* The continuation of connectToServer and of its caller in Index, run when the
\* promise of `call' settles, followed by the subscription effect of the
\* provider when isOfflineMode has changed.
Settles(m) == m.res # "none" /\ Pending(m.calls, m.call)

Commit_m(m, storedNow, connectingNow, failedNow) ==
  LET success == m.res = "true"
      name == m.calls[m.call].name
      sock == IF success /\ isOfflineMode
              THEN Subscribe(m.sock).sock
              ELSE IF ~success /\ ~isOfflineMode /\ subscribed
              THEN Unsubscribe(m.sock)
              ELSE m.sock
  IN /\ CountOrphans(m.tms) <= MaxOrphans
     /\ timers' = m.tms
     /\ currentServerIndex' = m.idx
     /\ reconnectAttempts' = m.ra
     /\ UNCHANGED <<gameState, messages, currentRoom, clock>>
     /\ IF Settles(m)
        THEN /\ calls' = [m.calls EXCEPT ![m.call].state = m.res]
             /\ username' = IF success THEN name ELSE Null
             /\ stored' = name
             /\ isOfflineMode' = ~success
             /\ rooms' = IF success THEN rooms ELSE demoRooms
             /\ socket' = sock
             /\ subscribed' = IF success /\ isOfflineMode THEN Subscribe(m.sock).handles
                              ELSE IF ~success /\ ~isOfflineMode THEN FALSE
                              ELSE subscribed
             /\ acks' = IF success /\ m.sock # NullSock
                        THEN Append(m.acks, Ack("get_rooms", Null))
                        ELSE m.acks
             /\ connectionFailed' = ~success
             /\ connecting' = FALSE
        ELSE /\ calls' = m.calls
             /\ socket' = m.sock
             /\ acks' = m.acks
             /\ stored' = storedNow
             /\ connecting' = connectingNow
             /\ connectionFailed' = failedNow
             /\ UNCHANGED <<username, isOfflineMode, rooms, subscribed>>

Commit(m, storedNow, connectingNow, failedNow) ==
  LET success == m.res = "true"
      name == m.calls[m.call].name
      sock == IF success /\ isOfflineMode
              THEN Subscribe(m.sock).sock
              ELSE IF ~success /\ ~isOfflineMode /\ subscribed
              THEN Unsubscribe(m.sock)
              ELSE m.sock
  IN /\ CountOrphans(m.tms) <= MaxOrphans
     /\ timers' = m.tms
     /\ currentServerIndex' = m.idx
     /\ reconnectAttempts' = m.ra
     /\ UNCHANGED <<gameState, messages, currentRoom, clock>>
     /\ IF Settles(m)
        THEN /\ calls' = [m.calls EXCEPT ![m.call].state = m.res]
             /\ username' = name
             /\ stored' = name
             /\ isOfflineMode' = ~success
             /\ rooms' = IF success THEN rooms ELSE demoRooms
             /\ socket' = sock
             /\ subscribed' = IF success /\ isOfflineMode THEN Subscribe(m.sock).handles
                              ELSE IF ~success /\ ~isOfflineMode THEN FALSE
                              ELSE subscribed
             /\ acks' = IF success /\ m.sock # NullSock
                        THEN Append(m.acks, Ack("get_rooms", Null))
                        ELSE m.acks
             /\ connectionFailed' = ~success
             /\ connecting' = FALSE
        ELSE /\ calls' = m.calls
             /\ socket' = m.sock
             /\ acks' = m.acks
             /\ stored' = storedNow
             /\ connecting' = connectingNow
             /\ connectionFailed' = failedNow
             /\ UNCHANGED <<username, isOfflineMode, rooms, subscribed>>

\* connectToServer(name) as the three handlers of Index call it, after
\* setConnecting(true) and setConnectionFailed(false)
connectToServer(name) ==
  LET cs == Append(Forget(calls), NewCall(name))
  IN /\ Len(calls) < MaxCalls
     /\ svcUsername' = name
     /\ UNCHANGED mainSocket
     /\ Commit(connect(name, Len(cs), cs), name, TRUE, FALSE)

\* ------------------------------------------------------------------- Index
handleLogin(name) ==
  /\ username = Null
  /\ ~connecting
  /\ connectToServer(name)
  /\ last' = Op("login", name, "called")

handleRetryConnection ==
  /\ username # Null
  /\ connectionFailed
  /\ ~connecting
  /\ connectToServer(username)
  /\ last' = Op("retry", username, "called")

disconnect_m ==
  IF IsConnected(socket)
  THEN [sock |-> NullSock, user |-> Null, acks |-> <<>>, tms |-> Orphan(timers)]
  ELSE [sock |-> socket, user |-> svcUsername, acks |-> acks, tms |-> timers]

\* disconnect() of the manager
disconnect ==
  IF socket # NullSock
  THEN [sock |-> NullSock, user |-> Null, acks |-> <<>>, tms |-> Orphan(timers)]
  ELSE [sock |-> socket, user |-> svcUsername, acks |-> acks, tms |-> timers]

\* disconnectFromServer, then localStorage.removeItem; the subscription effect
\* runs again when isOfflineMode was true
handleLogout ==
  /\ username # Null
  /\ socket' = disconnect.sock
  /\ svcUsername' = disconnect.user
  /\ UNCHANGED mainSocket
  /\ acks' = disconnect.acks
  /\ timers' = disconnect.tms
  /\ CountOrphans(disconnect.tms) <= MaxOrphans
  /\ gameState' = NullState
  /\ currentRoom' = Null
  /\ rooms' = <<>>
  /\ messages' = <<>>
  /\ username' = Null
  /\ isOfflineMode' = FALSE
  /\ subscribed' = IF isOfflineMode THEN Subscribe(disconnect.sock).handles ELSE subscribed
  /\ stored' = Null
  /\ UNCHANGED <<pageVars, clock, reconnectAttempts, currentServerIndex, calls>>
  /\ last' = Op("logout", Null, "ok")

\* ------------------------------------------------------------ socket events
\* whether somebody waits for the promise of `call', and what tryNextServer
\* does when it is called now
Held(call) == IF Pending(calls, call) THEN "held" ELSE "unheld"
Outcome == IF reconnectAttempts + 1 >= maxReconnectAttempts * ServerCount
           THEN "exhausted" ELSE "next"

\* "connect" of the current socket
SockConnect ==
  /\ socket # NullSock
  /\ socket.status = "connecting"
  /\ socket.errorsLeft > 0
  /\ UNCHANGED <<svcUsername, mainSocket>>
  /\ Commit(Step([socket EXCEPT !.status = "connected"], ClearTimeout(timers),
                 currentServerIndex, 0, acks, calls, socket.call, "true"), stored, connecting, connectionFailed)
  /\ last' = Op("connect", Held(socket.call), "connected")

\* "connect_error" of the current socket
SockConnectError ==
  LET sock == [socket EXCEPT !.errorsLeft = @ - 1]
  IN /\ socket # NullSock
     /\ socket.status = "connecting"
     /\ socket.errorsLeft > 0
     /\ UNCHANGED <<svcUsername, mainSocket>>
     /\ Commit(tryNextServer(socket.call, sock, ClearTimeout(timers), Failed(calls, socket)),
               stored, connecting, connectionFailed)
     /\ last' = Op("connect_error", Held(socket.call), Outcome)

\* the connection timeout registered by tryConnect
ConnectTimeoutFire(k) ==
  LET t == timers[k]
      rest == RemoveAt(timers, k)
  IN /\ t.kind = "connectTimeout"
     /\ CanFire(k)
     /\ UNCHANGED <<svcUsername, mainSocket>>
     /\ IF socket # NullSock /\ socket.status # "connected"
        THEN Commit(tryNextServer(t.call, socket, rest,
                                  IF t.cur THEN Failed(calls, socket) ELSE calls), stored, connecting, connectionFailed)
        ELSE Commit(Step(socket, rest, currentServerIndex, reconnectAttempts, acks, calls,
                         0, "none"), stored, connecting, connectionFailed)
     /\ last' = Op("connectTimeout", Held(t.call),
                   IF socket # NullSock /\ socket.status # "connected" THEN Outcome ELSE "none")

\* "disconnect" of the current socket for a reason other than "io client
\* disconnect"; the library retries by itself unless the server closed it
SockDrop(retries) ==
  /\ IsConnected(socket)
  /\ CountKind(timers, "reconnect") < MaxReconnect
  /\ socket' = IF retries
               THEN [socket EXCEPT !.status = "connecting", !.errorsLeft = reconnectionAttempts]
               ELSE [socket EXCEPT !.status = "closed", !.errorsLeft = 0]
  /\ timers' = Append(timers, ReconnectTimer(socket.server))
  /\ acks' = <<>>
  /\ UNCHANGED <<storeVars, pageVars, stored, clock, svcUsername, mainSocket, reconnectAttempts,
                 currentServerIndex, calls>>
  /\ last' = Op("drop", Null, IF retries THEN "transport close" ELSE "io server disconnect")

\* the reconnection scheduled by the disconnect handler
ReconnectFire(k) ==
  LET rest == RemoveAt(timers, k)
  IN /\ timers[k].kind = "reconnect"
     /\ CanFire(k)
     /\ UNCHANGED <<svcUsername, mainSocket>>
     /\ IF svcUsername # Null
        THEN Commit(tryConnect(currentServerIndex, 0, rest, reconnectAttempts, calls), stored, connecting, connectionFailed)
        ELSE Commit(Step(socket, rest, currentServerIndex, reconnectAttempts, acks, calls,
                         0, "none"), stored, connecting, connectionFailed)
     /\ last' = Op("reconnectTimer", ToString(timers[k].call),
                   IF svcUsername # Null THEN "tryConnect" ELSE "none")


\* ------------------------------------------------- two-endpoint manager
\* The manager of services/socketService.ts: connect() opens a socket to the
\* main endpoint (server 0), connectToFallback one to the fallback endpoint
\* (server 1).  Neither closes the socket it replaces, except the timeout,
\* which disconnects the current one.  socket is this.socket; mainSocket is a
\* main socket that connectToFallback or a later connect() has replaced and
\* that is still open, with its handlers.
MainSocket(call) ==
  [NewSocket(0, call) EXCEPT !.errorsLeft = mainReconnectionAttempts + 1]
FallbackSocket(call) ==
  [NewSocket(1, call) EXCEPT !.errorsLeft = MaxFallbackErrors]

MainTimeout(call) == Timer("mainTimeout", NullState, EmptyBoard, Null, call, TRUE)
ClearMainTimeout(tms, call) ==
  SelectSeq(tms, LAMBDA t : ~(t.kind = "mainTimeout" /\ t.call = call))

\* one connect_error fewer to come; the library gives up after the last
Errored(sock) ==
  [sock EXCEPT !.errorsLeft = @ - 1,
               !.status = IF sock.errorsLeft = 1 THEN "closed" ELSE @]

\* connectToFallback(username, resolve, reject) with the resolve of `call'
connectToFallback(call, tms, cs) ==
  Step(FallbackSocket(call), tms, currentServerIndex, reconnectAttempts + 1, <<>>,
       Tried(cs, call, 1), call, "none")

\* connect(username) of the two-endpoint manager
connectMain(name, call, cs) ==
  IF IsConnected(socket)
  THEN Step(socket, timers, currentServerIndex, reconnectAttempts, acks, cs, call, "true")
  ELSE Step(MainSocket(call), Append(timers, MainTimeout(call)), currentServerIndex,
            reconnectAttempts, <<>>, Tried(cs, call, 0), call, "none")

\* whether this.socket is a main socket still trying
IsOpenMain(sock) == sock # NullSock /\ sock.server = 0 /\ sock.status = "connecting"

\* connectToServer(name) over the two-endpoint manager, as the handlers of
\* Index call it
connectToServerTwo(name) ==
  LET cs == Append(Forget(calls), NewCall(name))
  IN /\ Len(calls) < MaxCalls
     /\ svcUsername' = name
     /\ mainSocket' = IF IsOpenMain(socket) THEN socket ELSE mainSocket
     /\ Commit(connectMain(name, Len(cs), cs), name, TRUE, FALSE)

handleLoginTwo(name) ==
  /\ username = Null
  /\ ~connecting
  /\ connectToServerTwo(name)
  /\ last' = Op("login", name, "called")

handleRetryConnectionTwo ==
  /\ username # Null
  /\ connectionFailed
  /\ ~connecting
  /\ connectToServerTwo(username)
  /\ last' = Op("retry", username, "called")

\* "connect" of a main socket: the current one, or the replaced one
MainConnect(replaced) ==
  LET m == IF replaced THEN mainSocket ELSE socket
      up == [m EXCEPT !.status = "connected"]
  IN /\ IsOpenMain(m)
     /\ mainSocket' = IF replaced THEN up ELSE mainSocket
     /\ UNCHANGED svcUsername
     /\ Commit(Step(IF replaced THEN socket ELSE up, ClearMainTimeout(timers, m.call),
                    currentServerIndex, 0, acks, calls, m.call, "true"),
               stored, connecting, connectionFailed)
     /\ last' = Op("connect", Held(m.call), IF replaced THEN "replaced main" ELSE "main")

\* "connect_error" of a main socket: the current one, or the replaced one
MainConnectError(replaced) ==
  LET m == IF replaced THEN mainSocket ELSE socket
      tms == ClearMainTimeout(timers, m.call)
      cs == Failed(calls, m)
  IN /\ IsOpenMain(m)
     /\ UNCHANGED svcUsername
     /\ IF reconnectAttempts = 0
        THEN /\ mainSocket' = Errored(m)
             /\ Commit(connectToFallback(m.call, tms, cs),
                       stored, connecting, connectionFailed)
        ELSE /\ mainSocket' = IF replaced THEN Errored(m) ELSE mainSocket
             /\ Commit(Step(IF replaced THEN socket ELSE Errored(m), tms, currentServerIndex,
                            reconnectAttempts, acks, cs, m.call, "false"),
                       stored, connecting, connectionFailed)
     /\ last' = Op("connect_error", Held(m.call),
                   IF reconnectAttempts = 0 THEN "fallback" ELSE "false")

\* the 5 s timeout registered by connect()
MainTimeoutFire(k) ==
  LET t == timers[k]
      rest == RemoveAt(timers, k)
  IN /\ t.kind = "mainTimeout"
     /\ UNCHANGED <<svcUsername, mainSocket>>
     /\ IF socket # NullSock /\ socket.status # "connected"
        THEN Commit(connectToFallback(t.call, rest, Failed(calls, socket)),
                    stored, connecting, connectionFailed)
        ELSE Commit(Step(socket, rest, currentServerIndex, reconnectAttempts, acks, calls,
                         0, "none"), stored, connecting, connectionFailed)
     /\ last' = Op("mainTimeout", Held(t.call),
                   IF socket # NullSock /\ socket.status # "connected"
                   THEN "fallback" ELSE "none")

IsOpenFallback(sock) == sock # NullSock /\ sock.server = 1 /\ sock.status = "connecting"

\* "connect" of the fallback socket
FallbackConnect ==
  /\ IsOpenFallback(socket)
  /\ UNCHANGED <<svcUsername, mainSocket>>
  /\ Commit(Step([socket EXCEPT !.status = "connected"], timers, currentServerIndex, 0,
                 acks, calls, socket.call, "true"), stored, connecting, connectionFailed)
  /\ last' = Op("connect", Held(socket.call), "fallback")

\* "connect_error" of the fallback socket
FallbackConnectError ==
  /\ IsOpenFallback(socket)
  /\ UNCHANGED <<svcUsername, mainSocket>>
  /\ Commit(Step(Errored(socket), timers, currentServerIndex, reconnectAttempts, acks,
                 Failed(calls, socket), socket.call, "false"),
            stored, connecting, connectionFailed)
  /\ last' = Op("connect_error", Held(socket.call), "fallback failed")

\* -------------------------------------------------- server acknowledgements
ServerRoomLists ==
  { <<>>,
    << [id |-> "srv-1", name |-> "Server Room", players |-> <<"carol">>,
        spectators |-> 0, isPrivate |-> FALSE] >> }

\* the acknowledgement of the oldest request arrives; the answer is the
\* server's choice
AckArrive ==
  LET a == Head(acks)
  IN /\ IsConnected(socket)
     /\ acks # <<>>
     /\ acks' = Tail(acks)
     /\ \/ /\ a.kind \in {"create_room", "join_random"}
           /\ \E roomId \in ServerRoomIds \cup {Null} :
                /\ currentRoom' = IF roomId # Null THEN roomId ELSE currentRoom
                /\ last' = Op("ack", roomId, a.kind)
           /\ UNCHANGED rooms
        \/ /\ a.kind = "join_room"
           /\ \E success \in BOOLEAN :
                /\ currentRoom' = IF success THEN a.id ELSE currentRoom
                /\ last' = Op("ack", a.id, IF success THEN "joined" ELSE "Failed to join room")
           /\ UNCHANGED rooms
        \/ /\ a.kind = "get_rooms"
           /\ \E list \in ServerRoomLists : rooms' = list
           /\ UNCHANGED currentRoom
           /\ last' = Op("ack", Null, a.kind)
     /\ UNCHANGED <<username, gameState, messages, isOfflineMode, subscribed, pageVars,
                    stored, timers, clock, socket, svcUsername, mainSocket, reconnectAttempts,
                    currentServerIndex, calls>>

\* -------------------------------------------------------------- server pushes
\* game states a server may push, by the name the model gives them
ServerStates ==
  [s1 |-> [initialGameState EXCEPT !.players = [X |-> "carol", O |-> "alice"]],
   s2 |-> [initialGameState EXCEPT
             !.board = [c \in Cells |-> IF c = 4 THEN "X" ELSE Null],
             !.currentTurn = "O",
             !.players = [X |-> "carol", O |-> "alice"]]]

GameStatePush_m(key) ==
  /\ IsConnected(socket)
  /\ gameState' = ServerStates[key]
  /\ UNCHANGED <<username, rooms, messages, currentRoom, isOfflineMode, subscribed,
                 pageVars, stored, timers, clock, svcVars>>
  /\ last' = Op("game_state", key, IF socket.listeners THEN "delivered" ELSE "no listener")

\* "game_state" arrives on the current socket: the callback the provider gave
\* to onGameState runs if it is registered on that socket
GameStatePush(key) ==
  /\ IsConnected(socket)
  /\ gameState' = IF socket.listeners THEN ServerStates[key] ELSE gameState
  /\ UNCHANGED <<username, rooms, messages, currentRoom, isOfflineMode, subscribed,
                 pageVars, stored, timers, clock, svcVars>>
  /\ last' = Op("game_state", key, IF socket.listeners THEN "delivered" ELSE "no listener")

\* messages a server may push
ServerMessages == { [sender |-> "carol", text |-> "hello"] }

\* "new_message" arrives on the current socket: the callback the provider gave
\* to onMessage runs if it is registered on that socket
MessagePush(message) ==
  /\ IsConnected(socket)
  /\ Len(messages) + PendingAppends + 1 <= MaxMsgs
  /\ messages' = IF socket.listeners THEN Append(messages, message) ELSE messages
  /\ UNCHANGED <<username, gameState, rooms, currentRoom, isOfflineMode, subscribed,
                 pageVars, stored, timers, clock, svcVars>>
  /\ last' = Op("new_message", Null, IF socket.listeners THEN "delivered" ELSE "no listener")

\* "room_list" arrives on the current socket: the callback the provider gave
\* to onRoomList runs if it is registered on that socket
RoomListPush(list) ==
  /\ IsConnected(socket)
  /\ rooms' = IF socket.listeners THEN list ELSE rooms
  /\ UNCHANGED <<username, gameState, messages, currentRoom, isOfflineMode, subscribed,
                 pageVars, stored, timers, clock, svcVars>>
  /\ last' = Op("room_list", Null, IF socket.listeners THEN "delivered" ELSE "no listener")

\* ---------------------------------------------------------------- setUsername
setUsername(name) ==
  /\ username' = name
  /\ stored' = name
  /\ UNCHANGED <<gameState, rooms, messages, currentRoom, isOfflineMode, subscribed,
                 pageVars, timers, clock, svcVars>>
  /\ last' = Op("setUsername", name, "ok")

\* ------------------------------------------------------------ specification
\* The page has just been mounted.  Without a persisted name nothing has
\* happened yet.  With one, the mount effect of Index has called
\* connectToServer(stored) and the effect of the provider, which runs after it,
\* has copied the name into the store and subscribed on the socket just opened.
InitFresh ==
  /\ stored = Null
  /\ username = Null
  /\ subscribed = FALSE
  /\ connecting = FALSE
  /\ timers = <<>>
  /\ socket = NullSock
  /\ svcUsername = Null
  /\ mainSocket = NullSock
  /\ calls = <<>>

InitReturning ==
  \E name \in LoginNames :
    /\ stored = name
    /\ username = name
    /\ subscribed = TRUE
    /\ connecting = TRUE
    /\ timers = << ConnectTimeout(1) >>
    /\ socket = [NewSocket(0, 1) EXCEPT !.listeners = TRUE]
    /\ svcUsername = name
    /\ mainSocket = NullSock
    /\ calls = << [NewCall(name) EXCEPT !.tried = 0] >>

Init ==
  /\ gameState = NullState
  /\ rooms = <<>>
  /\ messages = <<>>
  /\ currentRoom = Null
  /\ isOfflineMode = FALSE
  /\ connectionFailed = FALSE
  /\ clock = 0
  /\ reconnectAttempts = 0
  /\ currentServerIndex = 0
  /\ acks = <<>>
  /\ last = Op("mount", Null, "ok")
  /\ (InitFresh \/ InitReturning)

JoinIds == {rooms[k].id : k \in 1..Len(rooms)} \cup {"demo-room-1", "no-such-room"}

Next ==
  \/ \E name \in LoginNames : handleLogin(name)
  \/ handleRetryConnection
  \/ handleLogout
  \/ \E name \in Names : setUsername(name)
  \/ \E name \in RoomNames, isPrivate \in BOOLEAN : createRoom(name, isPrivate)
  \/ \E id \in JoinIds : joinRoom(id)
  \/ joinRandomGame
  \/ leaveRoom
  \/ \E index \in Cells : makeMove(index)
  \/ \E message \in Texts : sendMessage(message)
  \/ restartGame
  \/ \E k \in 1..Len(timers) : BotFire(k)
  \/ \E k \in 1..Len(timers) : ChatFire(k)
  \/ \E k \in 1..Len(timers) : ConnectTimeoutFire(k)
  \/ \E k \in 1..Len(timers) : ReconnectFire(k)
  \/ SockConnect
  \/ SockConnectError
  \/ \E retries \in BOOLEAN : SockDrop(retries)
  \/ AckArrive

Spec == Init /\ [][Next]_vars


\* The offline simulation on its own.  It starts where a first login has just
\* degraded to offline mode: every candidate has failed maxReconnectAttempts
\* times, the last socket is still held by the manager.
InitOffline ==
  \E name \in LoginNames :
    /\ username = name
    /\ stored = name
    /\ svcUsername = name
    /\ mainSocket = NullSock
    /\ gameState = NullState
    /\ rooms = demoRooms
    /\ messages = <<>>
    /\ currentRoom = Null
    /\ isOfflineMode = TRUE
    /\ subscribed = FALSE
    /\ connecting = FALSE
    /\ connectionFailed = TRUE
    /\ timers = <<>>
    /\ clock = 0
    /\ socket = [NewSocket(2, 1) EXCEPT !.errorsLeft = reconnectionAttempts]
    /\ reconnectAttempts = maxReconnectAttempts * ServerCount
    /\ currentServerIndex = 2
    /\ calls = << [NewCall(name) EXCEPT !.state = "false", !.tried = 2,
                                        !.failed = {0, 1, 2}] >>
    /\ acks = <<>>
    /\ last = Op("connect_error", "held", "exhausted")

\* the cells a user clicks while rooms and timers are explored
ClickCells == 0..MaxCell

\* The game of the simulation: rooms, moves, the automatic opponent, leaving
\* and logging out.
NextGame ==
  \/ \E name \in RoomNames : createRoom(name, FALSE)
  \/ \E id \in JoinIds : joinRoom(id)
  \/ leaveRoom
  \/ \E index \in ClickCells : makeMove(index)
  \/ \E k \in 1..Len(timers) : BotFire(k)
  \/ handleLogout

SpecGame == InitOffline /\ [][NextGame]_vars

\* the page shows the board and the chat only to a session that is in a room
InRoom == currentRoom # Null

\* The chat of the simulation, with the rooms and the game around it.
NextChat ==
  \/ ~InRoom /\ \E name \in RoomNames : createRoom(name, FALSE)
  \/ ~InRoom /\ \E id \in JoinIds : joinRoom(id)
  \/ InRoom /\ leaveRoom
  \/ InRoom /\ \E message \in Texts : sendMessage(message)
  \/ \E k \in 1..Len(timers) : ChatFire(k)
  \/ InRoom /\ restartGame
  \/ InRoom /\ makeMove(0)
  \/ \E k \in 1..Len(timers) : BotFire(k)

SpecChat == InitOffline /\ [][NextChat]_vars

\* The message log, online and offline: the page loads, the connection is made
\* or every attempt fails, the server pushes messages, the user chats and plays.
NextLog ==
  \/ \E name \in LoginNames : handleLogin(name)
  \/ SockConnect
  \/ SockConnectError
  \/ \E message \in ServerMessages : MessagePush(message)
  \/ ~InRoom /\ \E id \in JoinIds : joinRoom(id)
  \/ InRoom /\ leaveRoom
  \/ InRoom /\ \E message \in Texts : sendMessage(message)
  \/ \E k \in 1..Len(timers) : ChatFire(k)
  \/ InRoom /\ restartGame
  \/ InRoom /\ makeMove(0)

SpecLog == Init /\ [][NextLog]_vars

\* The two-endpoint manager with the page that calls it, from a page loaded
\* without a persisted name.
InitTwo == Init /\ InitFresh

NextTwo ==
  \/ \E name \in LoginNames : handleLoginTwo(name)
  \/ handleRetryConnectionTwo
  \/ handleLogout
  \/ \E replaced \in BOOLEAN : MainConnect(replaced)
  \/ \E replaced \in BOOLEAN : MainConnectError(replaced)
  \/ \E k \in 1..Len(timers) : MainTimeoutFire(k)
  \/ FallbackConnect
  \/ FallbackConnectError

SpecTwo == InitTwo /\ [][NextTwo]_vars

\* The provider's listeners across the life of the connection: login, retry,
\* failures and drops, with the three pushes that change the store.
NextListen ==
  \/ \E name \in LoginNames : handleLogin(name)
  \/ handleRetryConnection
  \/ SockConnect
  \/ SockConnectError
  \/ \E retries \in BOOLEAN : SockDrop(retries)
  \/ \E k \in 1..Len(timers) : ReconnectFire(k)
  \/ \E key \in DOMAIN ServerStates : GameStatePush(key)
  \/ \E list \in ServerRoomLists : RoomListPush(list)
  \/ \E message \in ServerMessages : MessagePush(message)

SpecListen == Init /\ [][NextListen]_vars

\* The board of a two player room, every cell clickable.
NextBoard ==
  \/ \E id \in JoinIds : joinRoom(id)
  \/ \E index \in Cells : makeMove(index)

SpecBoard == InitOffline /\ [][NextBoard]_vars

\* The room list of the simulation.
NextRooms ==
  \/ \E name \in RoomNames, isPrivate \in BOOLEAN : createRoom(name, isPrivate)
  \/ \E id \in JoinIds : joinRoom(id)
  \/ joinRandomGame
  \/ leaveRoom
  \/ \E name \in Names : setUsername(name)

SpecRooms == InitOffline /\ [][NextRooms]_vars

\* The connection manager with the page that calls it.
NextConn ==
  \/ \E name \in LoginNames : handleLogin(name)
  \/ handleRetryConnection
  \/ handleLogout
  \/ \E k \in 1..Len(timers) : ConnectTimeoutFire(k)
  \/ \E k \in 1..Len(timers) : ReconnectFire(k)
  \/ SockConnect
  \/ SockConnectError
  \/ \E retries \in BOOLEAN : SockDrop(retries)

SpecConn == Init /\ [][NextConn]_vars


\* checkWinner on every board.  The game of a two player room starts from an
\* arbitrary board over {empty, X, O} with either mark to move, and makeMove
\* applies checkWinner to each board it builds.
Boards == [Cells -> Marks \cup {Null}]

InitAnyBoard ==
  \E name \in LoginNames, board \in Boards, turn \in Marks :
    /\ username = name
    /\ stored = name
    /\ svcUsername = name
    /\ mainSocket = NullSock
    /\ gameState = [initialGameState EXCEPT
                      !.board = board, !.currentTurn = turn,
                      !.players = [X |-> "Player1", O |-> name]]
    /\ rooms = [demoRooms EXCEPT ![1].players = <<"Player1", name>>]
    /\ messages = << [sender |-> "System", text |-> "Welcome to the game room!"] >>
    /\ currentRoom = "demo-room-1"
    /\ isOfflineMode = TRUE
    /\ subscribed = FALSE
    /\ connecting = FALSE
    /\ connectionFailed = TRUE
    /\ timers = <<>>
    /\ clock = 0
    /\ socket = [NewSocket(2, 1) EXCEPT !.errorsLeft = reconnectionAttempts]
    /\ reconnectAttempts = maxReconnectAttempts * ServerCount
    /\ currentServerIndex = 2
    /\ calls = << [NewCall(name) EXCEPT !.state = "false", !.tried = 2,
                                        !.failed = {0, 1, 2}] >>
    /\ acks = <<>>
    /\ last = Op("joinRoom", "demo-room-1", "ok")

NextWinner == \E index \in Cells : makeMove(index)

SpecWinner == InitAnyBoard /\ [][NextWinner]_vars

\* The connection manager with the provider that listens to the server.
NextPush ==
  \/ \E name \in LoginNames : handleLogin(name)
  \/ handleLogout
  \/ SockConnect
  \/ SockConnectError
  \/ \E retries \in BOOLEAN : SockDrop(retries)
  \/ \E k \in 1..Len(timers) : ReconnectFire(k)
  \/ \E key \in DOMAIN ServerStates : GameStatePush(key)

SpecPush == Init /\ [][NextPush]_vars

\* A session from login to logout, online or offline, in and out of a room.
NextSession ==
  \/ \E name \in LoginNames : handleLogin(name)
  \/ handleRetryConnection
  \/ handleLogout
  \/ \E k \in 1..Len(timers) : ConnectTimeoutFire(k)
  \/ SockConnect
  \/ SockConnectError
  \/ \E name \in RoomNames : createRoom(name, FALSE)
  \/ leaveRoom
  \/ AckArrive
  \/ makeMove(0)
  \/ \E k \in 1..Len(timers) : BotFire(k)

SpecSession == Init /\ [][NextSession]_vars

\* The connection manager when timers fire and the network answers every
\* attempt, one way or the other; the user is free to do nothing.
SpecConnLive ==
  /\ SpecConn
  /\ WF_vars(\E k \in 1..Len(timers) : ConnectTimeoutFire(k))
  /\ WF_vars(\E k \in 1..Len(timers) : ReconnectFire(k))
  /\ WF_vars(SockConnect \/ SockConnectError)


\* ----------------------------------------------------------------- properties
Rows == {{3 * r, 3 * r + 1, 3 * r + 2} : r \in 0..2}
Columns == {{c, c + 3, c + 6} : c \in 0..2}
Diagonals == {{0, 4, 8}, {2, 4, 6}}
HasLine(board) ==
  \E L \in Rows \cup Columns \cup Diagonals :
    \E m \in Marks : \A c \in L : board[c] = m
IsFull(board) == \A c \in Cells : board[c] \in Marks

C2_RejectedMoveChangesNothing ==
  [][(isOfflineMode /\ last'.op = "makeMove" /\ last'.res \in {"occupied", "over"})
       => UNCHANGED <<gameState, timers>>]_vars

\* a move has just been ignored because the game was over
C2_Witness ==
  /\ isOfflineMode
  /\ last.op = "makeMove"
  /\ last.res = "over"
  /\ gameState.gameOver

\* C6: in offline mode createRoom appends exactly one room, whose occupant list
\* is the creator alone, makes it the current room and starts a game with an
\* empty board, X to move, the creator as X and nobody as O.
C6_CreateRoomSoleOccupant ==
  [][(isOfflineMode /\ last'.op = "createRoom")
       => /\ Len(rooms') = Len(rooms) + 1
          /\ SubSeq(rooms', 1, Len(rooms)) = rooms
          /\ rooms'[Len(rooms')].players = <<username>>
          /\ currentRoom' = rooms'[Len(rooms')].id
          /\ gameState' # NullState
          /\ gameState'.board = [c \in Cells |-> Null]
          /\ gameState'.currentTurn = "X"
          /\ gameState'.players = [X |-> username, O |-> Null]]_vars

\* a room has just been created next to the two demo rooms
C6_Witness ==
  /\ isOfflineMode
  /\ last.op = "createRoom"
  /\ Len(rooms) = 3
  /\ currentRoom = rooms[3].id

RoomWithId(id) == {k \in 1..Len(rooms) : rooms[k].id = id}

\* C7: in offline mode joinRoom(id) is rejected with "Room not found" when no
\* room has that id and with "Room is full" when the room has two occupants,
\* and a rejected join leaves rooms, currentRoom, gameState and messages
\* unchanged.
C7_RejectedJoin ==
  [][(isOfflineMode /\ last'.op = "joinRoom")
       => /\ (RoomWithId(last'.id) = {}) => last'.res = "Room not found"
          /\ (\E k \in RoomWithId(last'.id) : Len(rooms[k].players) = 2)
               => last'.res = "Room is full"
          /\ (last'.res # "ok") => UNCHANGED <<rooms, currentRoom, gameState, messages>>]_vars

\* a join of a room with two occupants has just been rejected
C7_Witness ==
  /\ isOfflineMode
  /\ last.op = "joinRoom"
  /\ last.res = "Room is full"
  /\ \E k \in RoomWithId(last.id) : Len(rooms[k].players) = 2

AllServers == 0..(ServerCount - 1)

\* C3: for every call of connect(name), also one made after an earlier call
\* has resolved false, the candidates are attempted in the declared cyclic
\* order and the call resolves false only after every candidate has been
\* attempted and has failed during that call.
C3_FalseOnlyAfterEveryCandidate ==
  (calls # <<>>) =>
    /\ calls[Len(calls)].ordered
    /\ (calls[Len(calls)].state = "false") => (calls[Len(calls)].failed = AllServers)

Reconnects(tms) == CountKind(tms, "reconnect")

\* C8: a drop that the client did not initiate schedules exactly one
\* reconnection, whose first attempt targets the endpoint of the connection
\* that dropped; nothing else schedules a reconnection; and after disconnect()
\* no attempt starts until the next connect().
C8_SingleReconnectionAtLastEndpoint ==
  [][/\ (last'.op = "drop") => (Reconnects(timers') = Reconnects(timers) + 1)
     /\ (last'.op # "drop") => (Reconnects(timers') <= Reconnects(timers))
     /\ (last'.op = "reconnectTimer" /\ last'.res = "tryConnect")
          => (ToString(socket'.server) = last'.id)
     /\ (socket = NullSock /\ svcUsername = Null /\ last'.op \notin {"login", "retry"})
          => (socket' = NullSock)]_vars

\* the manager has just given up, at the retry ceiling, on a chain of attempts
\* whose promise nobody holds, and the store is not in offline mode
ExhaustedUnheld ==
  /\ last.op \in {"connect_error", "connectTimeout"}
  /\ last.res = "exhausted"
  /\ last.id = "unheld"
  /\ ~isOfflineMode

\* C9: when the reconnection after a drop in the middle of an online session
\* has failed on all candidates, the session eventually enters offline mode
\* (unless the user logs out, or a connection is established after all).
C9_DropDegradesToOffline ==
  [](ExhaustedUnheld => <>(isOfflineMode \/ username = Null \/ IsConnected(socket)))

\* C10: in offline mode, a timer scheduled before leaveRoom() or logout and
\* firing after it changes nothing: gameState stays none and the message log
\* stays empty.
C10_StaleTimersIgnored ==
  [][(last.op \in {"leaveRoom", "logout"} /\ last'.op \in {"botTimer", "chatTimer"})
       => (gameState' = NullState /\ messages' = <<>>)]_vars

AllLines == Rows \cup Columns \cup Diagonals
AsSet(line) == {line[k] : k \in 1..Len(line)}

\* C11: in offline mode an accepted makeMove that completes a line sets
\* gameOver, sets winningCombination to a completed line of the mark that
\* moved, and sets winner to the name registered in players for that mark.
C11_WinningMove ==
  [][(isOfflineMode /\ last'.op = "makeMove" /\ last'.res = "free"
        /\ HasLine(gameState'.board))
       => /\ ~HasLine(gameState.board)
          /\ gameState'.gameOver
          /\ Len(gameState'.winningCombination) = 3
          /\ AsSet(gameState'.winningCombination) \in AllLines
          /\ \A c \in AsSet(gameState'.winningCombination) :
                gameState'.board[c] = gameState.currentTurn
          /\ gameState'.winner = gameState.players[gameState.currentTurn]]_vars

\* X has just played cell 2 on the board X,X,_,O,O,_,_,_,_
C11_Witness ==
  /\ isOfflineMode
  /\ last.op = "makeMove"
  /\ last.res = "free"
  /\ gameState # NullState
  /\ gameState.board = [c \in Cells |-> IF c \in {0, 1, 2} THEN "X"
                                        ELSE IF c \in {3, 4} THEN "O" ELSE Null]
  /\ gameState.gameOver
  /\ gameState.winner = gameState.players.X
  /\ gameState.winner # Null
  /\ gameState.winningCombination = <<0, 1, 2>>

\* C12: in offline mode an accepted move that fills the ninth cell without
\* completing a line yields gameOver true, no winner and no winning
\* combination.
C12_DrawOnFullBoard ==
  [][(isOfflineMode /\ last'.op = "makeMove" /\ last'.res = "free"
        /\ IsFull(gameState'.board) /\ ~HasLine(gameState'.board))
       => /\ gameState'.gameOver
          /\ gameState'.winner = Null
          /\ gameState'.winningCombination = <<>>]_vars

\* the ninth move has just filled the board and no line is complete
C12_Witness ==
  /\ isOfflineMode
  /\ last.op = "makeMove"
  /\ last.res = "free"
  /\ gameState # NullState
  /\ IsFull(gameState.board)
  /\ ~HasLine(gameState.board)
  /\ gameState.gameOver
  /\ gameState.winner = Null

\* the room the session is in was created by somebody else than the present
\* display name, who is still its only occupant
CreatedByOther(k) ==
  /\ rooms[k].id = currentRoom
  /\ Len(rooms[k].players) = 1
  /\ rooms[k].players[1] # username

\* C13: in offline mode createRoom by A adds exactly one room with occupants
\* [A]; when the session then acts under a second name B and joins that room,
\* the join succeeds, the occupants become [A, B] and the new game has
\* players.X = A and players.O = B.
C13_CreateThenJoinAsSecond ==
  [][/\ (isOfflineMode /\ last'.op = "createRoom")
          => /\ Len(rooms') = Len(rooms) + 1
             /\ rooms'[Len(rooms')].players = <<username>>
             /\ \A k \in 1..Len(rooms) : rooms'[k] = rooms[k]
     /\ (isOfflineMode /\ last'.op = "joinRoom" /\ last'.id = currentRoom)
          => \A k \in 1..Len(rooms) :
               CreatedByOther(k)
                 => /\ last'.res = "ok"
                    /\ rooms'[k].players = <<rooms[k].players[1], username>>
                    /\ currentRoom' = currentRoom
                    /\ gameState' # NullState
                    /\ gameState'.players = [X |-> rooms[k].players[1], O |-> username]
                    /\ gameState'.board = [c \in Cells |-> Null]]_vars

\* alice created the room, the session became bob and bob has just joined it
C13_Witness ==
  /\ isOfflineMode
  /\ last.op = "joinRoom"
  /\ last.res = "ok"
  /\ username = "bob"
  /\ Len(rooms) = 3
  /\ rooms[3].id = currentRoom
  /\ rooms[3].players = <<"alice", "bob">>
  /\ gameState.players = [X |-> "alice", O |-> "bob"]

\* C14: in offline mode every room of the room list has at most two
\* occupants.
C14_AtMostTwoOccupants ==
  isOfflineMode => \A k \in 1..Len(rooms) : Len(rooms[k].players) <= 2

\* a room created in this session is full and a further join of it has just
\* been rejected
C14_Witness ==
  /\ isOfflineMode
  /\ last.op = "joinRoom"
  /\ last.res = "Room is full"
  /\ Len(rooms) = 3
  /\ last.id = rooms[3].id
  /\ Len(rooms[3].players) = 2

\* board b2 is board b1 with one empty cell filled by a mark of `marks'
OneCellFilled(b1, b2, marks) ==
  \E c \in Cells :
    /\ b1[c] = Null
    /\ b2[c] \in marks
    /\ \A d \in Cells \ {c} : b2[d] = b1[d]

\* C15: in offline mode, within one game, every change of the board by a move
\* (of the user or of the automatic opponent) changes exactly one cell, from
\* empty to a mark; no mark is removed or overwritten.
C15_OneCellPerMove ==
  [][(isOfflineMode /\ last'.op \in {"makeMove", "botTimer"}
        /\ gameState # NullState /\ gameState' # NullState
        /\ gameState'.board # gameState.board)
       => OneCellFilled(gameState.board, gameState'.board, Marks)]_vars

Bots(tms) == CountKind(tms, "bot")

\* C16: in offline mode an accepted move of X that leaves the game going while
\* players.O is empty schedules one automatic move, and no other move
\* schedules one; when it fires, right after that move, it puts O on a cell
\* that is empty, keeps every mark, hands the turn to X and schedules nothing.
C16_OneOpponentMove ==
  [][/\ (isOfflineMode /\ last'.op = "makeMove")
          => (Bots(timers') =
                IF /\ last'.res = "free"
                   /\ gameState.currentTurn = "X"
                   /\ ~gameState'.gameOver
                   /\ gameState.players.O = Null
                THEN Bots(timers) + 1 ELSE Bots(timers))
     /\ (isOfflineMode /\ last.op = "makeMove" /\ last'.op = "botTimer")
          => /\ OneCellFilled(gameState.board, gameState'.board, {"O"})
             /\ gameState'.currentTurn = "X"
             /\ Bots(timers') = Bots(timers) - 1]_vars

RefLines ==
  << <<0, 1, 2>>, <<3, 4, 5>>, <<6, 7, 8>>, <<0, 3, 6>>,
     <<1, 4, 7>>, <<2, 5, 8>>, <<0, 4, 8>>, <<2, 4, 6>> >>

RefMatch(board, k) ==
  \E m \in Marks : \A j \in 1..3 : board[RefLines[k][j]] = m

RECURSIVE RefScan(_, _)
RefScan(board, k) ==
  IF k > 8 THEN <<>>
  ELSE IF RefMatch(board, k) THEN RefLines[k]
  ELSE RefScan(board, k + 1)

TwoLines(board) == \E j, k \in 1..8 : j < k /\ RefMatch(board, j) /\ RefMatch(board, k)

\* C17: on every board over {empty, X, O} checkWinner returns what the scan of
\* the eight lines in the order 012, 345, 678, 036, 147, 258, 048, 246 returns:
\* the first line holding three equal marks, or none; it is what every
\* accepted move stores as winningCombination.
C17_CheckWinnerIsFirstLine ==
  (gameState # NullState) =>
    /\ checkWinner(gameState.board) = RefScan(gameState.board, 1)
    /\ (last.op = "makeMove" /\ last.res = "free")
         => (gameState.winningCombination = RefScan(gameState.board, 1))

\* a move has just completed two lines at once and the earlier one is reported
C17_Witness ==
  /\ last.op = "makeMove"
  /\ last.res = "free"
  /\ TwoLines(gameState.board)
  /\ RefMatch(gameState.board, 1)
  /\ RefMatch(gameState.board, 4)
  /\ gameState.winningCombination = <<0, 1, 2>>

\* the subscription effect of the provider has run in this step and has called
\* the five subscription methods
EffectRanOnline == isOfflineMode /\ ~isOfflineMode'

\* C18: whatever the state of the manager, a call of the subscription methods
\* registers the callbacks on the manager's socket and returns unsubscribe
\* handles.
C18_SubscribeAlwaysRegisters ==
  [][EffectRanOnline => (subscribed' /\ socket' # NullSock /\ socket'.listeners)]_vars

\* C19: while the session is online and the manager is connected, every
\* game_state push replaces the gameState of the store by the pushed value.
C19_PushReplacesGameState ==
  [][(last'.op = "game_state" /\ ~isOfflineMode /\ IsConnected(socket))
       => (gameState' = ServerStates[last'.id])]_vars

\* a push that reached the store: the page was loaded with a persisted name
\* and the first candidate answered
C19_Delivered ==
  /\ last.op = "game_state"
  /\ last.res = "delivered"
  /\ gameState = ServerStates[last.id]

\* the step is a call of one of the manager's action methods by the provider,
\* from the lobby or the room that the page shows to a user who has a name
ActionCalled ==
  /\ username # Null
  /\ ~isOfflineMode
  /\ last'.op \in {"createRoom", "joinRoom", "joinRandomGame", "leaveRoom",
                   "makeMove", "restartGame", "sendMessage"}

\* C20: while the manager is not connected, with no socket or with a socket
\* that is not connected, a call of an action method emits nothing and leaves
\* the state of the manager as it was.
C20_NoEmitWhileNotConnected ==
  [][(ActionCalled /\ ~IsConnected(socket))
       => (last'.res # "emit" /\ UNCHANGED svcVars)]_vars

\* the connectivity mode changes in this step otherwise than by a logout
ModeSwitch == isOfflineMode' # isOfflineMode /\ last'.op # "logout"

\* C21: right after a switch of connectivity mode the session is in no room,
\* has no game and no message, and the room list holds no room of the mode
\* that was left.
C21_ModeSwitchDiscards ==
  [][ModeSwitch =>
       /\ currentRoom' = Null
       /\ gameState' = NullState
       /\ messages' = <<>>
       /\ \A k \in 1..Len(rooms'), j \in 1..Len(rooms) : rooms'[k] # rooms[j]]_vars

\* the promise of a connectToServer call settles in this step
CallSettles(k) ==
  /\ k <= Len(calls')
  /\ calls[k].state = "pending"
  /\ calls'[k].state # "pending"

SettlesForward(k) ==
  /\ username' = calls[k].name
  /\ \/ ~isOfflineMode' /\ IsConnected(socket') /\ calls'[k].state = "true"
     \/ isOfflineMode' /\ calls'[k].state = "false"

NameClearedByLogout == (username # Null /\ username' = Null) => (last'.op = "logout")

\* C22: when a connectToServer(name) call settles, the session is connected
\* under that name or in offline mode under that name; and a name that is set
\* is only ever cleared by a logout.
C22_ConnectingMovesForward ==
  [][(\A k \in 1..Len(calls) : CallSettles(k) => SettlesForward(k))
       /\ NameClearedByLogout]_vars

\* a login whose every attempt has failed has just settled: the session is
\* offline under the name given
C22_Witness ==
  /\ last.id = "held"
  /\ last.res = "exhausted"
  /\ calls[Len(calls)].state = "false"
  /\ isOfflineMode
  /\ username = calls[Len(calls)].name

\* tryConnect has opened a new socket in this step
NewAttempt ==
  /\ socket' # socket
  /\ socket' # NullSock
  /\ socket'.status = "connecting"
  /\ socket'.errorsLeft = reconnectionAttempts + 1

\* C23: while the session is in offline mode a new connection attempt is
\* started only by a login or a retry of the user, never by a timer or a
\* socket event.
C23_NoAutomaticAttemptOffline ==
  [][(isOfflineMode /\ isOfflineMode' /\ NewAttempt)
       => (last'.op \in {"login", "retry"})]_vars

LastOf(s) == s[Len(s)]

\* C24: in offline mode sendMessage appends the user's message at once under
\* the user's display name, and the canned reply that follows carries a
\* display name different from the user's.
C24_ReplyFromTheOther ==
  [][/\ (last'.op = "sendMessage")
         => (/\ Len(messages') = Len(messages) + 1
             /\ LastOf(messages').sender = OrYou(username))
     /\ (last'.op = "chatTimer")
         => (LastOf(messages').sender # OrYou(username))]_vars

IsPrefix(s, t) == Len(s) <= Len(t) /\ \A k \in 1..Len(s) : t[k] = s[k]

\* C25: every operation other than joining a room, leaving a room and logging
\* out keeps the messages already in the log, in their order, and adds new
\* ones only at the end.
C25_LogAppendOnly ==
  [][(last'.op \notin {"joinRoom", "leaveRoom", "logout"})
       => IsPrefix(messages, messages')]_vars

\* the log holds the welcome of the room, the user's message and the reply
\* that was appended after them
C25_Witness ==
  /\ last.op = "chatTimer"
  /\ Len(messages) = 3
  /\ messages[1].sender = "System"
  /\ messages[2].sender = OrYou(username)

\* C26: in offline mode a game state exists only while the session is in a
\* room.
C26_GameOnlyInRoom ==
  (isOfflineMode /\ gameState # NullState) => (currentRoom # Null)

\* a step of the local simulation that changes the store of a logged-in session
SimulationMutates ==
  /\ username # Null
  /\ last'.op \in {"makeMove", "botTimer", "sendMessage", "chatTimer"}
  /\ (gameState' # gameState \/ messages' # messages)

EntersOffline == ~isOfflineMode /\ isOfflineMode'

\* C27: offline mode is entered only when a connect call settles false, and
\* the local simulation changes the store only while the session is offline.
C27_SimulationOnlyOffline ==
  [][(EntersOffline => \E k \in 1..Len(calls) :
                         CallSettles(k) /\ calls'[k].state = "false")
       /\ (SimulationMutates => isOfflineMode)]_vars

CallPending(k) == k <= Len(calls) /\ calls[k].state = "pending"
CallSettled(k) == k <= Len(calls) /\ calls[k].state # "pending"

\* C28: every connect call eventually settles, true or false, when socket
\* events and timers are delivered fairly.
C28_ConnectSettles ==
  \A k \in 1..MaxCalls : CallPending(k) ~> CallSettled(k)

\* C29: the two-endpoint manager resolves a connect call false only once the
\* attempt on the fallback endpoint made for that call has failed.
C29_FalseOnlyAfterFallbackFailed ==
  [][\A k \in 1..Len(calls) :
       (CallSettles(k) /\ calls'[k].state = "false") => (1 \in calls'[k].failed)]_vars

PushOps == {"game_state", "room_list", "new_message"}

OfflineWithoutListeners == isOfflineMode => (socket = NullSock \/ ~socket.listeners)

OfflinePushIgnored ==
  (isOfflineMode /\ last'.op \in PushOps) => UNCHANGED <<gameState, rooms, messages>>

\* C30: while the session is offline none of the provider's listeners is on
\* the manager's socket, and a server push changes neither gameState nor rooms
\* nor messages.
C30_OfflineIgnoresPushes ==
  [][OfflineWithoutListeners /\ OfflinePushIgnored]_vars

\* the session is offline, the socket the manager was left with has connected
\* and a game_state push on it has been ignored
C30_Witness ==
  /\ isOfflineMode
  /\ IsConnected(socket)
  /\ last.op = "game_state"
  /\ last.res = "no listener"
  /\ gameState = NullState

\* restartGame in a room with a game: a fresh game for the same players, one
\* system message more, the room and the room list as they were
RestartResets ==
  (last'.op = "restartGame" /\ isOfflineMode /\ InRoom /\ gameState # NullState)
    => /\ gameState' = [initialGameState EXCEPT !.players = gameState.players]
       /\ Len(messages') = Len(messages) + 1
       /\ IsPrefix(messages, messages')
       /\ LastOf(messages').sender = "System"
       /\ UNCHANGED <<currentRoom, rooms>>

\* the opponent's timer that fires right after a restart was scheduled
\* before it
RestartSurvivesTimer ==
  (last.op = "restartGame" /\ last'.op = "botTimer" /\ gameState # NullState)
    => (gameState' # NullState /\ gameState'.board = gameState.board)

\* C31: offline, restartGame in a room gives an empty board with X to move,
\* not over, no winner, no winning combination, the same players, exactly one
\* system message more and the same room and room list; and an opponent move
\* that was pending at the restart does not change the restarted board.
C31_RestartGame ==
  [][RestartResets /\ RestartSurvivesTimer]_vars

\* room j of the list is public and has fewer than two occupants
Joinable(j) == ~rooms[j].isPrivate /\ Len(rooms[j].players) < 2

\* the session has joined room j: the user is appended to its occupants and
\* nothing else in the list changes
JoinedRoom(j) ==
  /\ currentRoom' = rooms[j].id
  /\ Len(rooms') = Len(rooms)
  /\ rooms'[j] = [rooms[j] EXCEPT !.players = Append(@, OrYou(username))]
  /\ \A i \in 1..Len(rooms) : i # j => rooms'[i] = rooms[i]

\* the session has created a public room of its own at the end of the list
CreatedRoom ==
  /\ Len(rooms') = Len(rooms) + 1
  /\ IsPrefix(rooms, rooms')
  /\ ~LastOf(rooms').isPrivate
  /\ LastOf(rooms').players = <<OrYou(username)>>
  /\ currentRoom' = LastOf(rooms').id

TryNextCalled == reconnectAttempts' = reconnectAttempts + 1

\* the attempt of the current socket has not been counted as failed yet: its
\* connection timeout is still pending
AttemptOpen == \E k \in 1..Len(timers) : IsCurTimeout(timers[k])

\* C33: a failed attempt calls tryNextServer once: the call comes from the
\* timeout of the attempt or from the first connect_error of its socket, and
\* never again for the same socket.
C33_OneAdvancePerAttempt ==
  [][TryNextCalled => AttemptOpen]_vars

\* the promise of call k resolves true in this step
ResolvedTrue(k) ==
  /\ k <= Len(calls')
  /\ calls'[k].state = "true"
  /\ (k > Len(calls) \/ calls[k].state # "true")

\* the socket whose "connect" handler ran is the current one, opened for call k
ResolvedByCurrent(k) == (last'.op = "connect") => (socket'.call = k /\ socket.call = k)

\* C34: when a connect(name) promise resolves true the current socket of the
\* manager is connected, and the socket that resolved it is the current one.
C34_TrueMeansConnected ==
  [][\A k \in 1..MaxCalls : ResolvedTrue(k) => (IsConnected(socket') /\ ResolvedByCurrent(k))]_vars

C34_Witness ==
  /\ last.op = "connect"
  /\ last.id = "held"
  /\ calls[Len(calls)].state = "true"
  /\ socket.server # 0
  /\ IsConnected(socket)

CountMark(board, mark) == Cardinality({c \in Cells : board[c] = mark})

\* C35: in every game state of the simulation the board holds as many X as O
\* or one X more, and while the game is not over it is the turn of X exactly
\* when the two counts are equal.
C35_MarksAlternate ==
  (isOfflineMode /\ gameState # NullState)
    => LET x == CountMark(gameState.board, "X")
           o == CountMark(gameState.board, "O")
       IN /\ x - o \in {0, 1}
          /\ ~gameState.gameOver => (gameState.currentTurn = "X" <=> x = o)

\* the automatic opponent has moved after two marks of the user were on the board
C35_Witness ==
  /\ isOfflineMode
  /\ last.op = "botTimer"
  /\ gameState # NullState
  /\ CountMark(gameState.board, "X") = 1
  /\ CountMark(gameState.board, "O") = 0
  /\ gameState.currentTurn = "O"

\* ------------------------------------------------------- a game played alone
\* makeMove called for each cell of `moves' in turn, each call from the render
\* that follows the previous one and all of them before the first opponent
\* timer fires: the game state and the timers left pending
RECURSIVE Play(_, _, _)
Play(gs, tms, moves) ==
  IF moves = <<>>
  THEN [gs |-> gs, tms |-> tms]
  ELSE LET index == Head(moves)
       IN IF MoveAccepted(gs, index)
          THEN Play(MovedState(gs, index),
                    IF SchedulesBot(gs, index)
                    THEN Append(tms, BotTimer(gs, NewBoard(gs, index)))
                    ELSE tms,
                    Tail(moves))
          ELSE Play(gs, tms, Tail(moves))

\* the cells of the first five calls
SoloOpenings == {<<0, 3, 1, 4, 6>>, <<4, 0, 8, 1, 5>>}

\* The session of InitOffline after createRoom("Test", false) and the five
\* calls of an opening.
InitSolo ==
  \E name \in LoginNames, moves \in SoloOpenings :
    LET played == Play([initialGameState EXCEPT !.players = [X |-> name, O |-> Null]],
                       <<>>, moves)
    IN /\ username = name
       /\ stored = name
       /\ svcUsername = name
       /\ mainSocket = NullSock
       /\ gameState = played.gs
       /\ rooms = Append(demoRooms, [id |-> RoomId(0), name |-> "Test", players |-> <<name>>,
                                     spectators |-> 0, isPrivate |-> FALSE])
       /\ messages = <<>>
       /\ currentRoom = RoomId(0)
       /\ isOfflineMode = TRUE
       /\ subscribed = FALSE
       /\ connecting = FALSE
       /\ connectionFailed = TRUE
       /\ timers = played.tms
       /\ clock = 1
       /\ socket = [NewSocket(2, 1) EXCEPT !.errorsLeft = reconnectionAttempts]
       /\ reconnectAttempts = maxReconnectAttempts * ServerCount
       /\ currentServerIndex = 2
       /\ calls = << [NewCall(name) EXCEPT !.state = "false", !.tried = 2,
                                           !.failed = {0, 1, 2}] >>
       /\ acks = <<>>
       /\ last = Op("makeMove", Null, "free")

NextSolo ==
  \/ \E index \in Cells : makeMove(index)
  \/ \E k \in 1..Len(timers) : BotFire(k)

SpecSolo == InitSolo /\ [][NextSolo]_vars

\* C36: in every game state of the simulation winner is a display name exactly
\* when winningCombination is a line; a game won by O in a room without a
\* second player is not left with winner none.
C36_WinnerIffLine ==
  (isOfflineMode /\ gameState # NullState)
    => (gameState.winner # Null <=> gameState.winningCombination # <<>>)

\* the occupants of a room without the one who joined last
BeforeJoin(r) == SubSeq(r.players, 1, Len(r.players) - 1)

LeaveAfterJoin ==
  /\ isOfflineMode
  /\ last.op = "joinRoom"
  /\ last.res = "ok"
  /\ last'.op = "leaveRoom"

\* C37: leaveRoom() right after an accepted joinRoom(r) leaves r with the
\* occupants it had before the join, so that r is not full for the same user.
C37_LeaveUndoesJoin ==
  [][LeaveAfterJoin
       => LET k == FindRoom(rooms, last.id)
          IN rooms'[k].players = BeforeJoin(rooms[k]) /\ Len(rooms'[k].players) < 2]_vars

====
